---------------------------- MODULE Spec2Model ----------------------------
(***************************************************************************)
(* Model of scripts/check_layout_sections.py: the extraction-and-compare   *)
(* engine that keeps the four layout sections in sync with the monolith.   *)
(*                                                                         *)
(* A text is a sequence of one-character strings; the byte-order mark      *)
(* U+FEFF is the character "BOM".  Offsets are zero-based as in Python;    *)
(* None is -1.  Each operator named after a function of the script         *)
(* computes what that function computes.                                   *)
(***************************************************************************)
EXTENDS Integers, Sequences, FiniteSets, TLC

VARIABLES
    pc,               \* control point of the operation being run
    AUTO_FIX_BRACES,  \* the run-scoped flag (line 15)
    files,            \* the file system: path -> text, or Missing
    monolith,         \* the text read from MONOLITH
    sec,              \* index of the section being processed
    s_start,          \* extractors: offset of the opening guard
    abs_end,          \* extractors: offset just after the interior landmark
    segment,          \* extractors: monolith[abs_end:]
    match,            \* extractors: (start, end) of the closing match
    expected,         \* the block handed to validate_and_maybe_fix / compare
    got_raw,          \* compare: the text of the split file
    hay,              \* find_ws_insensitive: haystack
    snippet,          \* find_ws_insensitive: pattern
    start,            \* find_ws_insensitive: start offset
    bal,              \* (ok, opens, closes) of line 103
    ret,              \* value returned by the operation
    err,              \* message given to fail(), NoMsg while the run is alive
    out,              \* [INFO] lines printed so far
    exit_code,        \* process exit status, None while running
    log               \* history: the stages run so far, with their outcome

vars == <<pc, AUTO_FIX_BRACES, files, monolith, sec, s_start, abs_end, segment,
          match, expected, got_raw, hay, snippet, start, bal, ret, err, out,
          exit_code, log>>

None == -1

(***************************************************************************)
(* Python str primitives                                                   *)
(***************************************************************************)
BOM == "BOM"

\* str.isspace / regex \s, restricted to the white space that occurs here
IsSpace(c) == c \in {" ", "\t", "\n", "\r"}

Min(a, b) == IF a <= b THEN a ELSE b

\* s[a:b] for 0 <= a; Python clamps the bounds to the length
Slice(s, a, b) == SubSeq(s, a + 1, Min(b, Len(s)))

\* s[a:]
From(s, a) == SubSeq(s, a + 1, Len(s))

RECURSIVE SkipSpace(_, _)
\* while i < n and s[i].isspace(): i += 1
SkipSpace(s, i) ==
    IF i < Len(s) /\ IsSpace(s[i + 1]) THEN SkipSpace(s, i + 1) ELSE i

RECURSIVE SkipChar(_, _, _)
SkipChar(s, c, i) ==
    IF i < Len(s) /\ s[i + 1] = c THEN SkipChar(s, c, i + 1) ELSE i

RECURSIVE BackSpace(_, _)
\* length of s without its trailing white space
BackSpace(s, n) ==
    IF n > 0 /\ IsSpace(s[n]) THEN BackSpace(s, n - 1) ELSE n

lstrip(s) == From(s, SkipSpace(s, 0))

rstrip(s) == SubSeq(s, 1, BackSpace(s, Len(s)))

strip(s) == lstrip(rstrip(s))

\* s.lstrip(BOM)
lstrip_bom(s) == From(s, SkipChar(s, BOM, 0))

\* s.startswith(p, i)
startswith(s, p, i) ==
    /\ i + Len(p) <= Len(s)
    /\ \A k \in 1..Len(p) : s[i + k] = p[k]

\* s.endswith(p)
endswith(s, p) == Len(p) <= Len(s) /\ startswith(s, p, Len(s) - Len(p))

\* the offsets a..b-1 in increasing order
Offsets(a, b) == [k \in 1..(b - a) |-> a + k - 1]

\* the first of a sequence of offsets, d when there is none
FirstOr(hits, d) == IF hits = <<>> THEN d ELSE hits[1]

\* s.find(p, i)
find(s, p, i) ==
    LET At(j) == startswith(s, p, j)
    IN  FirstOr(SelectSeq(Offsets(i, Len(s) - Len(p) + 1), At), None)

\* p in s
contains(s, p) == find(s, p, 0) # None

\* s.count(c) for a one-character c
count(s, c) ==
    LET Is(x) == x = c
    IN  Len(SelectSeq(s, Is))

\* the lines of s, given the offsets at which its line breaks end
LinesBetween(s, ends) ==
    LET \* where the break ending at j starts: one earlier for \r\n
        BreakStart(j) == IF s[j + 1] = "\n" /\ j > 0 /\ s[j] = "\r" THEN j - 1 ELSE j
        LineStart(k)  == IF k = 1 THEN 0 ELSE ends[k - 1] + 1
        rest          == IF ends = <<>> THEN 0 ELSE ends[Len(ends)] + 1
    IN  [k \in 1..Len(ends) |-> Slice(s, LineStart(k), BreakStart(ends[k]))]
            \o (IF rest < Len(s) THEN <<From(s, rest)>> ELSE <<>>)

\* s.splitlines(): breaks at \n, \r\n and \r; no empty last line
splitlines(s) ==
    LET BreakEnd(j) == \/ s[j + 1] = "\n"
                       \/ s[j + 1] = "\r" /\ ~(j + 1 < Len(s) /\ s[j + 2] = "\n")
    IN  LinesBetween(s, SelectSeq(Offsets(0, Len(s)), BreakEnd))

RECURSIVE JoinRange(_, _, _, _)
\* sep.join(lines[a-1:b]), by halves
JoinRange(sep, lines, a, b) ==
    IF a > b THEN <<>>
    ELSE IF a = b THEN lines[a]
    ELSE JoinRange(sep, lines, a, (a + b) \div 2) \o sep
             \o JoinRange(sep, lines, (a + b) \div 2 + 1, b)

\* sep.join(lines)
join(sep, lines) == JoinRange(sep, lines, 1, Len(lines))

\* the characters of s at the offsets keep
Pick(s, keep) == [k \in 1..Len(keep) |-> s[keep[k] + 1]]

\* s.replace("\r\n", "\n"): every "\r" that a "\n" follows is dropped
replace_crlf(s) ==
    LET Kept(j) == ~(s[j + 1] = "\r" /\ j + 1 < Len(s) /\ s[j + 2] = "\n")
    IN  Pick(s, SelectSeq(Offsets(0, Len(s)), Kept))

\* c * n
Repeat(c, n) == [k \in 1..n |-> c]

(***************************************************************************)
(* The part of Python's re the script uses.  A pattern is a sequence of    *)
(* items: a literal text, or a character class with a quantifier.          *)
(* Matching backtracks in re's order (a greedy item takes the longest run  *)
(* that lets the rest match, a lazy one the shortest) and search returns   *)
(* the leftmost match.                                                     *)
(***************************************************************************)
WordChars ==
    {"a","b","c","d","e","f","g","h","i","j","k","l","m","n","o","p","q","r",
     "s","t","u","v","w","x","y","z","A","B","C","D","E","F","G","H","I","J",
     "K","L","M","N","O","P","Q","R","S","T","U","V","W","X","Y","Z","0","1",
     "2","3","4","5","6","7","8","9","_"}

Lowers == <<"a","b","c","d","e","f","g","h","i","j","k","l","m",
            "n","o","p","q","r","s","t","u","v","w","x","y","z">>

Uppers == <<"A","B","C","D","E","F","G","H","I","J","K","L","M",
            "N","O","P","Q","R","S","T","U","V","W","X","Y","Z">>

\* the characters re.IGNORECASE lets the literal c match
AnyCase(c) ==
    {c} \cup {Lowers[i] : i \in {j \in 1..26 : Uppers[j] = c \/ Lowers[j] = c}}
        \cup {Uppers[i] : i \in {j \in 1..26 : Uppers[j] = c \/ Lowers[j] = c}}

Lits(t)     == [k |-> "str",   v |-> t,   q |-> "1"]
LitsAnyCase(t) == [k |-> "istr", v |-> t, q |-> "1"]
Lit(c)      == Lits(<<c>>)
SpaceStar   == [k |-> "space", v |-> {},  q |-> "*"]
SpacePlus   == [k |-> "space", v |-> {},  q |-> "+"]
WordPlus    == [k |-> "word",  v |-> {},  q |-> "+"]
Star(c)     == [k |-> "in",    v |-> {c}, q |-> "*"]
NotStar(c)  == [k |-> "notin", v |-> {c}, q |-> "*"]
Opt(c)      == [k |-> "in",    v |-> {c}, q |-> "?"]
AnyLazy     == [k |-> "any",   v |-> {},  q |-> "*?"]
DotStar     == [k |-> "notin", v |-> {"\n"}, q |-> "*"]

InClass(c, e) ==
    CASE e.k = "in"    -> c \in e.v
      [] e.k = "notin" -> c \notin e.v
      [] e.k = "space" -> IsSpace(c)
      [] e.k = "word"  -> c \in WordChars
      [] e.k = "any"   -> TRUE

\* whether s holds the literal text of item e at offset i
LitAt(e, s, i) ==
    /\ i + Len(e.v) <= Len(s)
    /\ \A k \in 1..Len(e.v) :
          IF e.k = "istr" THEN s[i + k] \in AnyCase(e.v[k]) ELSE s[i + k] = e.v[k]

RECURSIVE RunRec(_, _, _)
RunRec(e, s, i) ==
    IF i < Len(s) /\ InClass(s[i + 1], e) THEN 1 + RunRec(e, s, i + 1) ELSE 0

\* how many characters from offset i on belong to the class of e
Run(e, s, i) ==
    LET Out(j) == ~InClass(s[j + 1], e)
    IN  IF e.k = "any" THEN Len(s) - i
        ELSE IF e.k = "notin"
        THEN FirstOr(SelectSeq(Offsets(i, Len(s)), Out), Len(s)) - i
        ELSE RunRec(e, s, i)

RECURSIVE MatchAt(_, _, _, _)

\* the widths, in increasing order, that item pat[k] may take at offset i of
\* a run of n characters such that the rest of the pattern matches after it
Widths(pat, k, s, i, n) ==
    LET Hit(w) == MatchAt(pat, k + 1, s, i + w) # None
    IN  SelectSeq(Offsets(IF pat[k].q = "+" THEN 1 ELSE 0,
                          (IF pat[k].q = "?" THEN Min(1, n) ELSE n) + 1), Hit)

\* the width re settles on: the shortest for a lazy item, else the longest
Preferred(e, ws) ==
    IF ws = <<>> THEN None
    ELSE IF e.q = "*?" THEN ws[1] ELSE ws[Len(ws)]

\* the match of the rest of the pattern after pat[k] has taken w characters
After(pat, k, s, i, w) ==
    IF w = None THEN None ELSE MatchAt(pat, k + 1, s, i + w)

\* end offset of the match of pat[k..] at offset i, None when there is none
MatchAt(pat, k, s, i) ==
    IF k > Len(pat) THEN i
    ELSE IF pat[k].k \in {"str", "istr"}
    THEN After(pat, k, s, i, IF LitAt(pat[k], s, i) THEN Len(pat[k].v) ELSE None)
    ELSE After(pat, k, s, i,
               Preferred(pat[k], Widths(pat, k, s, i, Run(pat[k], s, i))))

RECURSIVE FirstMatch(_, _, _, _)

\* the match r found at cands[n], or the first match further on
MatchOrNext(pat, s, cands, n, r) ==
    IF r # None THEN <<cands[n], r>> ELSE FirstMatch(pat, s, cands, n + 1)

\* the match at the first of the offsets cands[n..] that has one
FirstMatch(pat, s, cands, n) ==
    IF n > Len(cands) THEN <<None, None>>
    ELSE MatchOrNext(pat, s, cands, n, MatchAt(pat, 1, s, cands[n]))

\* whether the first item of pat can begin a match at offset j
CanBegin(pat, s, j) ==
    IF pat = <<>> THEN TRUE
    ELSE IF pat[1].k \in {"str", "istr"} THEN LitAt(pat[1], s, j)
    ELSE IF pat[1].q = "+" THEN j < Len(s) /\ InClass(s[j + 1], pat[1])
    ELSE TRUE

\* re.search(pat, s[i:]) as <<start, end>> in offsets of s; <<None, None>>:
\* the match at the first offset that has one
SearchFrom(pat, s, i) ==
    LET Begin(j) == CanBegin(pat, s, j)
    IN  FirstMatch(pat, s, SelectSeq(Offsets(i, Len(s) + 1), Begin), 1)

re_search(pat, s) == SearchFrom(pat, s, 0)

RECURSIVE SubFrom(_, _, _)

\* s[i:] with the match mt and every later match removed
SubStep(pat, s, i, mt) ==
    IF mt[1] = None THEN From(s, i)
    ELSE Slice(s, i, mt[1]) \o SubFrom(pat, s, mt[2])

SubFrom(pat, s, i) == SubStep(pat, s, i, SearchFrom(pat, s, i))

\* re.sub(pat, "", s); no pattern of the script matches the empty text
re_sub(pat, s) == SubFrom(pat, s, 0)

RECURSIVE SubAll(_, _)
\* re.sub with each of the patterns in turn
SubAll(pats, s) ==
    IF pats = <<>> THEN s ELSE SubAll(Tail(pats), re_sub(Head(pats), s))

\* a or b for two search results
OrMatch(a, b) == IF a[1] # None THEN a ELSE b

RECURSIVE SearchAny(_, _)
\* pats[1].search(s) or pats[2].search(s) or ...
SearchAny(pats, s) ==
    IF pats = <<>> THEN <<None, None>>
    ELSE OrMatch(re_search(Head(pats), s), SearchAny(Tail(pats), s))

(***************************************************************************)
(* helpers (lines 19-61)                                                   *)
(***************************************************************************)
\* the characters of s at the offsets keep, white space as " "
PickSpaced(s, keep) ==
    [k \in 1..Len(keep) |-> IF IsSpace(s[keep[k] + 1]) THEN " " ELSE s[keep[k] + 1]]

\* re.sub(r"\s+", " ", s): a run of white space is kept as one " "
collapse_ws(s) ==
    LET Kept(j) == ~IsSpace(s[j + 1]) \/ j = 0 \/ ~IsSpace(s[j])
    IN  PickSpaced(s, SelectSeq(Offsets(0, Len(s)), Kept))

\* re.sub(r"\s+", " ", s).strip()
norm_ws(s) == strip(collapse_ws(s))

\* r"<!--\s*REGION:\s*\w+\.<suffix>\s*-->", re.IGNORECASE
RegionPattern(suffix) ==
    <<Lits(<<"<", "!", "-", "-">>), SpaceStar,
      LitsAnyCase(<<"R", "E", "G", "I", "O", "N", ":">>), SpaceStar,
      WordPlus, LitsAnyCase(<<".">> \o suffix), SpaceStar,
      Lits(<<"-", "-", ">">>)>>

strip_region_wrappers(s) ==
    SubAll(<<RegionPattern(<<"S", "t", "a", "r", "t">>),
             RegionPattern(<<"E", "n", "d">>)>>, s)

\* offset of the first white space at or after i, Len(s) when there is none
WordEnd(s, i) ==
    LET Sp(j) == IsSpace(s[j + 1])
    IN  FirstOr(SelectSeq(Offsets(i, Len(s)), Sp), Len(s))

RECURSIVE ws_pattern(_, _)

\* the literal snip[i:e] and the pattern of what follows it
WordThen(snip, i, e) == <<Lits(Slice(snip, i, e))>> \o ws_pattern(snip, e)

\* re.sub(r"(\\\s)+", r"\\s+", re.escape(snip)): every run of white space of
\* the snippet is matched by \s+, the text between literally
ws_pattern(snip, i) ==
    IF i >= Len(snip) THEN <<>>
    ELSE IF IsSpace(snip[i + 1])
         THEN <<SpacePlus>> \o ws_pattern(snip, SkipSpace(snip, i))
    ELSE WordThen(snip, i, WordEnd(snip, i))

\* line 38: the match mt of hay_n[st:] in offsets of hay_n
Shifted(st, mt) ==
    IF mt[1] # None THEN <<st + mt[1], st + mt[2]>> ELSE <<None, None>>

find_ws_insensitive(h, snip, st) ==
    Shifted(st, re_search(ws_pattern(replace_crlf(snip), 0),
                          From(replace_crlf(h), st)))

\* r'@\\*.*?\\*@' with re.S: "@", any backslashes, lazily anything, "@"
RazorBlockPattern == <<Lit("@"), Star("\\"), AnyLazy, Star("\\"), Lit("@")>>

\* r'/\\*.*?\\*/' with re.S
CsBlockPattern == <<Lit("/"), Star("\\"), AnyLazy, Star("\\"), Lit("/")>>

\* r'//.*'
CsLinePattern == <<Lits(<<"/", "/">>), DotStar>>

strip_razor_comments(s) ==
    SubAll(<<RazorBlockPattern, CsBlockPattern, CsLinePattern>>, s)

\* the test of lines 51-56 on one line
IsCodeLine(ln) ==
    \/ startswith(lstrip(ln), <<"@">>, 0)
    \/ startswith(lstrip(ln), <<"{">>, 0)
    \/ startswith(lstrip(ln), <<"}">>, 0)
    \/ contains(lstrip(ln), <<"@", "i", "f">>)
    \/ contains(lstrip(ln), <<"@", "f", "o", "r", "e", "a", "c", "h">>)
    \/ contains(lstrip(ln), <<"@", "s", "w", "i", "t", "c", "h">>)

\* lines 59-61
count_braces(txt) ==
    [ok     |-> count(txt, "{") = count(txt, "}"),
     opens  |-> count(txt, "{"),
     closes |-> count(txt, "}")]

brace_balance(block) ==
    count_braces(strip_razor_comments(
        join(<<"\n">>, SelectSeq(splitlines(block), IsCodeLine))))

(***************************************************************************)
(* fail (lines 156-158) ends the process; a function that may call it is   *)
(* modelled as returning either a value or the message given to fail.      *)
(***************************************************************************)
NoMsg == [name |-> "", what |-> "", opens |-> None, closes |-> None]

Msg(name, what) == [name |-> name, what |-> what, opens |-> None, closes |-> None]

MsgCounts(name, what, o, c) == [name |-> name, what |-> what, opens |-> o, closes |-> c]

Returned(v, info) == [failed |-> FALSE, val |-> v, msg |-> NoMsg, info |-> info]

Failed(msg) == [failed |-> TRUE, val |-> <<>>, msg |-> msg, info |-> <<>>]

(***************************************************************************)
(* ensure_starts_with_if_block (lines 63-98)                               *)
(***************************************************************************)
\* lines 77-81 and 85-89: past the closer found at e, of length n, and the
\* white space after it; i when there is no closer
PastCloser(s, i, e, n) == IF e # None THEN SkipSpace(s, e + n) ELSE i

\* lines 75-81
SkipHtmlComment(s, i) ==
    IF Slice(s, i, i + 4) = <<"<", "!", "-", "-">>
    THEN PastCloser(s, i, find(s, <<"-", "-", ">">>, i), 3)
    ELSE i

\* lines 83-89
SkipRazorComment(s, i) ==
    IF startswith(s, <<"@", "*">>, i)
    THEN PastCloser(s, i, find(s, <<"*", "@">>, i), 2)
    ELSE i

RECURSIVE SkipComments(_, _)

\* lines 90-91: once more if the pass from i to j advanced
SkipMore(s, i, j) == IF j # i THEN SkipComments(s, j) ELSE i

\* the loop of lines 73-91
SkipComments(s, i) == SkipMore(s, i, SkipRazorComment(s, SkipHtmlComment(s, i)))

\* r'@if\s*\([^\)]*\)\s*\{'
IfBlockPattern ==
    <<Lits(<<"@", "i", "f">>), SpaceStar, Lit("("), NotStar(")"),
      Lit(")"), SpaceStar, Lit("{")>>

\* lines 64-93
head_of(s) == From(s, SkipComments(s, SkipSpace(s, 0)))

\* lines 94-98
check_head(name, head, start_literal) ==
    IF ~startswith(head, start_literal, 0)
    THEN Msg(name, "start does not match expected pattern")
    ELSE IF re_search(IfBlockPattern, head)[1] = None
    THEN Msg(name, "missing '{' after start literal")
    ELSE NoMsg

\* NoMsg when the function returns, the message when it fails
ensure_starts_with_if_block(name, block, start_literal) ==
    check_head(name, head_of(lstrip_bom(block)), start_literal)

(***************************************************************************)
(* validate_and_maybe_fix (lines 101-130)                                  *)
(***************************************************************************)
\* line 109 without its rstrip()
appended_unstripped(block, delta) ==
    block \o <<"\n">> \o Repeat("}", delta) \o <<"\n">>

\* line 109
appended(block, delta) ==
    rstrip(block) \o <<"\n">> \o Repeat("}", delta) \o <<"\n">>

\* lines 111-114, b2 being brace_balance(fixed)
append_checked(name, fixed, delta, b2) ==
    IF b2.ok
    THEN Returned(fixed, <<MsgCounts(name, "appended closing brace(s)", delta, None)>>)
    ELSE Failed(MsgCounts(name, "brace auto-fix failed", b2.opens, b2.closes))

\* lines 110-114
append_recheck(name, fixed, delta) ==
    append_checked(name, fixed, delta, brace_balance(fixed))

\* lines 109-114
append_fix(name, block, delta) ==
    append_recheck(name, appended(block, delta), delta)

RECURSIVE TrimLoopUnstripped(_, _, _)
\* the loop of lines 121-123 without the rstrip() of line 122
TrimLoopUnstripped(t, trimmed, need) ==
    IF trimmed < need /\ endswith(t, <<"}">>)
    THEN TrimLoopUnstripped(SubSeq(t, 1, Len(t) - 1), trimmed + 1, need)
    ELSE <<t, trimmed>>

RECURSIVE TrimLoop(_, _, _)
\* the loop of lines 121-123: <<t, trimmed>>
TrimLoop(t, trimmed, need) ==
    IF trimmed < need /\ endswith(t, <<"}">>)
    THEN TrimLoop(rstrip(SubSeq(t, 1, Len(t) - 1)), trimmed + 1, need)
    ELSE <<t, trimmed>>

\* lines 124-129, r being <<t, trimmed>> after the loop
trim_checked(name, r, opens, closes) ==
    IF r[2] = closes - opens /\ brace_balance(r[1]).ok
    THEN Returned(r[1], <<MsgCounts(name, "trimmed surplus closing brace(s)", r[2], None)>>)
    ELSE Failed(MsgCounts(name,
             "brace mismatch. Surplus closers not only at EOF.", opens, closes))

\* lines 118-129
trim_fix(name, block, opens, closes) ==
    trim_checked(name, TrimLoop(rstrip(block), 0, closes - opens), opens, closes)

\* line 108 with the flag ignored
AppendAlways(delta, auto_fix) == delta > 0

\* line 108: the test that selects the append repair
AppendWanted(delta, auto_fix) == delta > 0 /\ auto_fix

\* line 116: the test that selects the trim repair
TrimWanted(delta) == delta < 0

\* line 130
mismatch(name, opens, closes) ==
    Failed(MsgCounts(name,
        "brace mismatch. Set AUTO_FIX_BRACES=true to auto-append missing '}'.",
        opens, closes))

\* lines 104-130, b being (ok, opens, closes) of line 103
repair(name, block, auto_fix, b) ==
    IF b.ok THEN Returned(block, <<>>)
    ELSE IF AppendWanted(b.opens - b.closes, auto_fix)
    THEN append_fix(name, block, b.opens - b.closes)
    ELSE IF TrimWanted(b.opens - b.closes)
    THEN trim_fix(name, block, b.opens, b.closes)
    ELSE mismatch(name, b.opens, b.closes)

\* lines 103-130
balance_or_fix(name, block, auto_fix) ==
    repair(name, block, auto_fix, brace_balance(block))

\* lines 102-130, e being the outcome of line 102
validate_after(name, block, auto_fix, e) ==
    IF e # NoMsg THEN Failed(e) ELSE balance_or_fix(name, block, auto_fix)

validate_and_maybe_fix(name, block, start_literal, auto_fix) ==
    validate_after(name, block, auto_fix,
                   ensure_starts_with_if_block(name, block, start_literal))

(***************************************************************************)
(* _strip_leading_noise (lines 160-201)                                    *)
(***************************************************************************)
IsBlank(ln) == strip(ln) = <<>>

RECURSIVE SkipBlank(_, _)
\* while i < len(lines) and lines[i].strip() == "": i += 1
SkipBlank(lines, i) ==
    IF i < Len(lines) /\ IsBlank(lines[i + 1]) THEN SkipBlank(lines, i + 1) ELSE i

RECURSIVE FindLine(_, _, _)
\* index of the first line at or after j that contains closer, None if none
FindLine(lines, closer, j) ==
    IF j >= Len(lines) THEN None
    ELSE IF contains(lines[j + 1], closer) THEN j
    ELSE FindLine(lines, closer, j + 1)

\* lines 170 and 185: the closer of the comment that line opens, <<>> if none
CloserOf(line) ==
    IF startswith(line, <<"<", "!", "-", "-">>, 0) THEN <<"-", "-", ">">>
    ELSE IF startswith(line, <<"@", "*">>, 0) THEN <<"*", "@">>
    ELSE <<>>

RECURSIVE SkipLeadingComments(_, _)

\* lines 176-184 and 191-199: past the closing line j and the blank lines
\* after it; i when the comment is not closed
PastComment(lines, i, j) ==
    IF j = None THEN i ELSE SkipLeadingComments(lines, SkipBlank(lines, j + 1))

\* lines 172-181 and 187-196
SkipComment(lines, i, closer) ==
    IF closer = <<>> THEN i ELSE PastComment(lines, i, FindLine(lines, closer, i))

\* the loop of lines 168-200
SkipLeadingComments(lines, i) ==
    IF i >= Len(lines) THEN i
    ELSE SkipComment(lines, i, CloserOf(lstrip(lines[i + 1])))

\* lines 162-201
from_first_content(lines) ==
    join(<<"\n">>, SubSeq(lines, SkipLeadingComments(lines, SkipBlank(lines, 0)) + 1,
                          Len(lines)))

_strip_leading_noise(s) == from_first_content(splitlines(lstrip_bom(s)))

(***************************************************************************)
(* compare (lines 133-153), given the text read from the split file        *)
(***************************************************************************)
compare(section_name, exp, got) ==
    IF norm_ws(_strip_leading_noise(exp))
           = norm_ws(_strip_leading_noise(strip_region_wrappers(got)))
    THEN Returned(<<>>, <<Msg(section_name, "OK")>>)
    ELSE Failed(Msg(section_name, "mismatch. See diff above."))

(***************************************************************************)
(* the literals of the extractors (lines 206-303)                          *)
(***************************************************************************)
\* line 232
STUDENT_LITERAL ==
    <<"@", "i", "f", " ", "(", "!", "i", "s", "I", "n", "i", "t", "i", "a",
      "l", "i", "z", "e", "d", "A", "s", "S", "t", "u", "d", "e", "n", "t",
      "U", "s", "e", "r", ")">>

\* line 257
COMPANY_LITERAL ==
    <<"@", "i", "f", " ", "(", "!", "i", "s", "I", "n", "i", "t", "i", "a",
      "l", "i", "z", "e", "d", "A", "s", "C", "o", "m", "p", "a", "n", "y",
      "U", "s", "e", "r", ")">>

\* line 284
PROFESSOR_LITERAL ==
    <<"@", "i", "f", " ", "(", "!", "i", "s", "I", "n", "i", "t", "i", "a",
      "l", "i", "z", "e", "d", "A", "s", "P", "r", "o", "f", "e", "s", "s",
      "o", "r", "U", "s", "e", "r", ")">>

\* line 303
RESEARCH_LITERAL ==
    <<"@", "i", "f", " ", "(", "!", "i", "s", "I", "n", "i", "t", "i", "a",
      "l", "i", "z", "e", "d", "A", "s", "R", "e", "s", "e", "a", "r", "c",
      "h", "G", "r", "o", "u", "p", "U", "s", "e", "r", ")">>

\* line 216
STUDENT_ANCHOR ==
    <<"<", "b", "u", "t", "t", "o", "n", " ", "t", "y", "p", "e", "=",
      "\"", "b", "u", "t", "t", "o", "n", "\"", " ", "c", "l", "a", "s",
      "s", "=", "\"", "b", "t", "n", " ", "b", "t", "n", "-", "s", "e",
      "c", "o", "n", "d", "a", "r", "y", "\"", " ", "@", "o", "n", "c",
      "l", "i", "c", "k", "=", "\"", "C", "l", "o", "s", "e", "J", "o",
      "b", "D", "e", "t", "a", "i", "l", "s", "M", "o", "d", "a", "l",
      "\"", ">">>

\* line 242
COMPANY_ANCHOR ==
    <<"@", "o", "n", "c", "l", "i", "c", "k", "=", "\"", "C", "l", "o",
      "s", "e", "M", "o", "d", "a", "l", "R", "e", "s", "e", "a", "r", "c",
      "h", "G", "r", "o", "u", "p", "D", "e", "t", "a", "i", "l", "s", "O",
      "n", "E", "y", "e", "I", "c", "o", "n", "W", "h", "e", "n", "S", "e",
      "a", "r", "c", "h", "F", "o", "r", "R", "e", "s", "e", "a", "r", "c",
      "h", "G", "r", "o", "u", "p", "s", "A", "s", "C", "o", "m", "p", "a",
      "n", "y", "\"">>

\* line 266
PROFESSOR_ANCHOR ==
    <<"<", "c", "a", "n", "v", "a", "s", " ", "i", "d", "=", "\"", "s",
      "k", "i", "l", "l", "s", "C", "h", "a", "r", "t", "\"">>

\* line 293
RESEARCH_ANCHOR ==
    <<"@", "o", "n", "c", "l", "i", "c", "k", "=", "\"", "C", "l", "o",
      "s", "e", "P", "a", "t", "e", "n", "t", "s", "M", "o", "d", "a", "l",
      "\"">>

\* the element closer of the closing tails
DIV ==
    <<"<", "/", "d", "i", "v", ">">>

\* the line break of the Professor tails
BR ==
    <<"<", "b", "r", "/", ">">>

(***************************************************************************)
(* extractors (lines 206-303)                                              *)
(***************************************************************************)
RECURSIVE Divs(_)
\* n times r"</div>\s*"
Divs(n) == IF n = 0 THEN <<>> ELSE <<Lits(DIV), SpaceStar>> \o Divs(n - 1)

\* r"<br/>\s*<br/>\s*"
Brs == <<Lits(BR), SpaceStar, Lits(BR), SpaceStar>>

\* line 224: r"</div>\s*</div>\s*</div>\s*</div>\s*}\s*}\s*(?:}\s*)?"; after the
\* greedy \s* before it, the optional group (?:}\s*)? matches what }?\s* matches
student_closing ==
    Divs(4) \o <<Lit("}"), SpaceStar, Lit("}"), SpaceStar, Opt("}"), SpaceStar>>

\* lines 248 and 298: r"</div>\s*</div>\s*</div>\s*</div>\s*}"
company_closing == Divs(4) \o <<Lit("}")>>

\* line 272
tail_a == Divs(4) \o Brs

\* line 274
tail_b == Divs(2) \o <<Lit("}"), SpaceStar>> \o Divs(3) \o Brs

\* line 276
tail_c == Divs(3) \o Brs \o <<Lit("}"), SpaceStar>>

\* the earlier of two search results, a when they start together
Leftmost(a, b) ==
    IF a[1] = None THEN b
    ELSE IF b[1] = None THEN a
    ELSE IF b[1] < a[1] THEN b ELSE a

\* line 279 with the alternatives ranked by where they match
professor_tail_leftmost(seg) ==
    Leftmost(re_search(tail_a, seg),
             Leftmost(re_search(tail_b, seg), re_search(tail_c, seg)))

\* line 279: tail_a.search(segment) or tail_b.search(segment) or tail_c.search(segment)
professor_tail(seg) == SearchAny(<<tail_a, tail_b, tail_c>>, seg)

\* p, or q when p is None
OrElse(p, q) == IF p # None THEN p ELSE q

\* the opening guard: the primary and the fallback indentation
\* (lines 207-209, 236-238, 260-262, 287-289)
guard_start(mono, literal) ==
    OrElse(find_ws_insensitive(mono, literal \o <<"\n", "{">>, 0)[1],
           find_ws_insensitive(mono,
               literal \o <<"\n">> \o Repeat(" ", 32) \o <<"{">>, 0)[1])

\* the closing search of each extractor on monolith[anchor_abs_end:]
\* (lines 223-227, 247-252, 279, 298)
closing_search(name, seg) ==
    IF name = "Professor" THEN professor_tail(seg)
    ELSE re_search(IF name = "Student" THEN student_closing ELSE company_closing,
                   seg)

\* lines 228-231: the block between the guard and the end of the closing match
carve_closing(name, mono, st, a_abs, cm) ==
    IF cm[1] = None THEN Failed(Msg(name, "closing structure not found"))
    ELSE Returned(Slice(mono, st, a_abs + cm[2]), <<>>)

\* lines 218-231, a_end being the end of the anchor in monolith[s_start:]
carve_anchor(name, mono, st, a_end) ==
    IF a_end = None THEN Failed(Msg(name, "end anchor not found"))
    ELSE carve_closing(name, mono, st, st + a_end,
                       closing_search(name, From(mono, st + a_end)))

\* lines 210-231, st being the offset of the guard
carve_from(name, mono, anchor, st) ==
    IF st = None THEN Failed(Msg(name, "start not found"))
    ELSE carve_anchor(name, mono, st,
                      find_ws_insensitive(From(mono, st), anchor, 0)[2])

\* the block an extractor carves out, before validate_and_maybe_fix:
\* val = monolith[s_start : anchor_abs_end + m.end()], or the message of the
\* failing stage
carve(name, mono, literal, anchor) ==
    carve_from(name, mono, anchor, guard_start(mono, literal))

\* the last line of each extractor, c being what it carved
validate_carved(name, c, literal, auto_fix) ==
    IF c.failed THEN c ELSE validate_and_maybe_fix(name, c.val, literal, auto_fix)

\* an extractor, given its section name, start literal and anchor
extract(name, mono, literal, anchor, auto_fix) ==
    validate_carved(name, carve(name, mono, literal, anchor), literal, auto_fix)

extract_student(mono, auto_fix) ==
    extract("Student", mono, STUDENT_LITERAL, STUDENT_ANCHOR, auto_fix)

extract_company(mono, auto_fix) ==
    extract("Company", mono, COMPANY_LITERAL, COMPANY_ANCHOR, auto_fix)

extract_professor(mono, auto_fix) ==
    extract("Professor", mono, PROFESSOR_LITERAL, PROFESSOR_ANCHOR, auto_fix)

extract_research(mono, auto_fix) ==
    extract("ResearchGroup", mono, RESEARCH_LITERAL, RESEARCH_ANCHOR, auto_fix)

(***************************************************************************)
(* Shared by the specifications below: the values the variables hold while *)
(* an operation has not written them, and the texts built from fragments.  *)
(***************************************************************************)
NoBalance == [ok |-> FALSE, opens |-> None, closes |-> None]

NoMatch == <<None, None>>

\* main, lines 309-312: the sections in the order main processes them
SectionName == <<"Student", "Company", "Professor", "ResearchGroup">>

\* lines 232, 257, 284, 303: the start literal each extractor validates against
SectionLiteral ==
    <<STUDENT_LITERAL, COMPANY_LITERAL, PROFESSOR_LITERAL, RESEARCH_LITERAL>>

RECURSIVE Concat(_)
Concat(parts) ==
    IF parts = <<>> THEN <<>> ELSE Head(parts) \o Concat(Tail(parts))

SeqsUpTo(S, n) == UNION {[1..k -> S] : k \in 0..n}

\* fail (lines 156-158) or return, as the next state of an operation
Conclude(r) ==
    IF r.failed
    THEN /\ pc' = "failed"
         /\ err' = r.msg
         /\ exit_code' = 1
         /\ UNCHANGED <<ret, out>>
    ELSE /\ pc' = "returned"
         /\ ret' = r.val
         /\ out' = out \o r.info
         /\ UNCHANGED <<err, exit_code>>

(***************************************************************************)
(* SpecFix: validate_and_maybe_fix (lines 101-130) on one block, statement *)
(* by statement.  A block is an opening followed by at most MaxBody lines. *)
(***************************************************************************)
MaxBody == 3

FixSections == {1, 3}

\* how a block may open: the guard and its brace, the guard alone, the guard
\* followed by other text, the guard behind a BOM and a comment, and text
\* before the guard
FixHeads(literal) ==
    { literal \o <<"\n", "{">>,
      literal,
      literal \o <<" ", "x">>,
      <<BOM, " ", "<", "!", "-", "-", "c", "-", "-", ">", "\n">> \o literal
          \o <<" ", "{">>,
      <<"x">> \o literal \o <<"\n", "{">> }

\* the lines a block may continue with
FixLines ==
    { <<"\n", "{">>,
      <<"\n", "}">>,
      <<"\n", "@", "i", "f", " ", "(", "a", ")", " ", "{">>,
      <<"\n", "<", "p", ">", "}">>,
      <<"\n", "}", "<", "p", ">">>,
      <<"\n", "@", "*", " ", "}", " ", "*", "@">>,
      <<" ">> }

FixBlocks(literal) ==
    { h \o Concat(b) : h \in FixHeads(literal), b \in SeqsUpTo(FixLines, MaxBody) }

InitFix ==
    /\ pc = "ensure"
    /\ AUTO_FIX_BRACES \in BOOLEAN
    /\ sec \in FixSections
    /\ expected \in FixBlocks(SectionLiteral[sec])
    /\ bal = NoBalance
    /\ ret = <<>>
    /\ err = NoMsg
    /\ out = <<>>
    /\ exit_code = None
    /\ files = <<>> /\ monolith = <<>> /\ s_start = None /\ abs_end = None
    /\ segment = <<>> /\ match = NoMatch /\ got_raw = <<>> /\ hay = <<>>
    /\ snippet = <<>> /\ start = None /\ log = <<>>

FixFrame ==
    UNCHANGED <<AUTO_FIX_BRACES, files, monolith, sec, s_start, abs_end,
                segment, match, expected, got_raw, hay, snippet, start, log>>

\* line 102
EnsureStart ==
    /\ pc = "ensure"
    /\ LET e == ensure_starts_with_if_block(SectionName[sec], expected,
                                            SectionLiteral[sec])
       IN  IF e # NoMsg
           THEN pc' = "failed" /\ err' = e /\ exit_code' = 1
           ELSE pc' = "balance" /\ UNCHANGED <<err, exit_code>>
    /\ UNCHANGED <<bal, ret, out>>
    /\ FixFrame

\* lines 103-106
Balance ==
    /\ pc = "balance"
    /\ bal' = brace_balance(expected)
    /\ IF bal'.ok
       THEN pc' = "returned" /\ ret' = expected
       ELSE pc' = "repair" /\ UNCHANGED ret
    /\ UNCHANGED <<err, out, exit_code>>
    /\ FixFrame

\* lines 108-114
AppendClosers ==
    /\ pc = "repair"
    /\ AppendWanted(bal.opens - bal.closes, AUTO_FIX_BRACES)
    /\ Conclude(append_fix(SectionName[sec], expected, bal.opens - bal.closes))
    /\ UNCHANGED bal
    /\ FixFrame

\* lines 116-129
TrimClosers ==
    /\ pc = "repair"
    /\ ~AppendWanted(bal.opens - bal.closes, AUTO_FIX_BRACES)
    /\ TrimWanted(bal.opens - bal.closes)
    /\ Conclude(trim_fix(SectionName[sec], expected, bal.opens, bal.closes))
    /\ UNCHANGED bal
    /\ FixFrame

\* line 130
Mismatch ==
    /\ pc = "repair"
    /\ ~AppendWanted(bal.opens - bal.closes, AUTO_FIX_BRACES)
    /\ ~TrimWanted(bal.opens - bal.closes)
    /\ Conclude(mismatch(SectionName[sec], bal.opens, bal.closes))
    /\ UNCHANGED bal
    /\ FixFrame

NextFix == EnsureStart \/ Balance \/ AppendClosers \/ TrimClosers \/ Mismatch

SpecFix == InitFix /\ [][NextFix]_vars

(***************************************************************************)
(* Properties of validate_and_maybe_fix, checked under SpecFix             *)
(***************************************************************************)
FixDone == pc \in {"returned", "failed"}

FixName == SectionName[sec]

\* the surplus of counted closers over counted openers
Surplus == bal.closes - bal.opens

IsPrefix(a, b) == Len(a) <= Len(b) /\ SubSeq(b, 1, Len(a)) = a

RECURSIVE EndsWithClosers(_, _)
\* t ends, white space apart, with k closing tokens
EndsWithClosers(t, k) ==
    \/ k = 0
    \/ /\ endswith(rstrip(t), <<"}">>)
       /\ EndsWithClosers(SubSeq(rstrip(t), 1, Len(rstrip(t)) - 1), k - 1)

RECURSIVE DropClosers(_, _)
\* t without its last k closing tokens and the white space around them
DropClosers(t, k) ==
    IF k = 0 THEN rstrip(t)
    ELSE DropClosers(SubSeq(rstrip(t), 1, Len(rstrip(t)) - 1), k - 1)

SurplusMessage ==
    MsgCounts(FixName, "brace mismatch. Surplus closers not only at EOF.",
              bal.opens, bal.closes)

DeficitMessage ==
    MsgCounts(FixName,
        "brace mismatch. Set AUTO_FIX_BRACES=true to auto-append missing '}'.",
        bal.opens, bal.closes)

\* C2 as stated: with AUTO_FIX_BRACES false, a block whose counted opening and
\* closing tokens differ in either direction ends in a brace-mismatch failure
\* naming the two counts, and is never returned repaired.
C2_NoRepairWhenDisabled ==
    (FixDone /\ ~AUTO_FIX_BRACES /\ bal.opens # bal.closes) =>
        /\ pc = "failed"
        /\ err \in {SurplusMessage, DeficitMessage}

\* C2 amended: with AUTO_FIX_BRACES false, a block with more counted openers
\* than closers ends in the brace-mismatch failure naming the two counts and
\* is never returned appended-to; a block with more counted closers than
\* openers is still offered to the trim repair, which the flag does not gate:
\* it is returned as a trimmed prefix, or fails naming the two counts.
C2_NoAppendWhenDisabled ==
    (FixDone /\ ~AUTO_FIX_BRACES /\ bal.opens # bal.closes) =>
        IF bal.opens > bal.closes
        THEN pc = "failed" /\ err = DeficitMessage /\ ret = <<>> /\ out = <<>>
        ELSE \/ pc = "failed" /\ err = SurplusMessage
             \/ /\ pc = "returned"
                /\ IsPrefix(ret, expected) /\ ret # expected
                /\ out = <<MsgCounts(FixName, "trimmed surplus closing brace(s)",
                                     Surplus, None)>>

\* an under-closed block has been refused because the flag is off
C2_Witness ==
    /\ pc = "failed" /\ ~AUTO_FIX_BRACES
    /\ bal.opens > bal.closes /\ err = DeficitMessage

\* C3 as stated: for a block that passed the opening check with k more counted
\* closers than openers, the repair returns the block without its last k
\* closing tokens, balanced, if those k tokens end the block (white space
\* apart), and fails otherwise; a returned block is a prefix of the input.
C3_TrimsTrailingSurplus ==
    (FixDone /\ bal.opens < bal.closes) =>
        IF EndsWithClosers(expected, Surplus)
        THEN /\ pc = "returned"
             /\ ret = DropClosers(expected, Surplus)
             /\ IsPrefix(ret, expected)
             /\ brace_balance(ret).ok
        ELSE pc = "failed"

\* C3 amended: the repair returns the block without its last k closing tokens
\* exactly when those k tokens end the block (white space apart) and the
\* block so trimmed balances under brace_balance; in every other case it
\* fails with the surplus message naming the two counts.  A returned block
\* is a balanced prefix of the input.
C3_TrimsWhenTrimmedBalances ==
    (FixDone /\ bal.opens < bal.closes) =>
        IF /\ EndsWithClosers(expected, Surplus)
           /\ brace_balance(DropClosers(expected, Surplus)).ok
        THEN /\ pc = "returned"
             /\ ret = DropClosers(expected, Surplus)
             /\ IsPrefix(ret, expected)
             /\ brace_balance(ret).ok
        ELSE pc = "failed" /\ err = SurplusMessage

\* two surplus closers, separated by white space, have been trimmed
C3_Witness ==
    /\ pc = "returned" /\ Surplus = 2
    /\ ret = DropClosers(expected, 2) /\ Len(expected) - Len(ret) > 2

\* C4: for a block that passed the opening check with k more counted openers
\* than closers, with AUTO_FIX_BRACES true, the repair returns the input
\* without its trailing white space followed by a line of exactly k closing
\* tokens, and that block balances under brace_balance; it never returns a
\* block that is still unbalanced (it fails with the auto-fix message).
C4_AppendsMissingClosers ==
    (FixDone /\ AUTO_FIX_BRACES /\ bal.opens > bal.closes) =>
        \/ /\ pc = "returned"
           /\ ret = rstrip(expected) \o <<"\n">> \o Repeat("}", -Surplus) \o <<"\n">>
           /\ brace_balance(ret).ok
           /\ out = <<MsgCounts(FixName, "appended closing brace(s)", -Surplus, None)>>
        \/ /\ pc = "failed"
           /\ err.what = "brace auto-fix failed"
           /\ err.opens # err.closes

\* two closers have been appended to a block that ended in white space
C4_Witness ==
    /\ pc = "returned" /\ AUTO_FIX_BRACES
    /\ bal.opens = bal.closes + 2
    /\ rstrip(expected) # expected

\* the opening C8 describes: after the BOM, white space and comments the
\* block begins with the literal, and the next character after the literal
\* that is not white space is "{"
OpensWithGuard(block, literal) ==
    /\ startswith(head_of(lstrip_bom(block)), literal, 0)
    /\ startswith(lstrip(From(head_of(lstrip_bom(block)), Len(literal))),
                  <<"{">>, 0)

\* the two messages of ensure_starts_with_if_block
ShapeMessages ==
    {"start does not match expected pattern", "missing '{' after start literal"}

\* C8: a block is accepted only if, after its leading BOM, white space and
\* comments, it begins with the section's guard literal and the next
\* character after the literal that is not white space is "{"; every other
\* block fails the opening check, before any brace is counted and whatever
\* the flag.
C8_OpeningShapeEnforced ==
    pc # "ensure" =>
        /\ (pc = "failed" /\ err.what \in ShapeMessages)
               <=> ~OpensWithGuard(expected, SectionLiteral[sec])
        /\ (pc = "failed" /\ err.what \in ShapeMessages) => bal = NoBalance

\* the three comment forms as C9 names them
DocRazorComment == <<Lits(<<"@", "*">>), AnyLazy, Lits(<<"*", "@">>)>>

DocCsComment == <<Lits(<<"/", "*">>), AnyLazy, Lits(<<"*", "/">>)>>

\* the text C9 says is counted: the included lines without those comments
DocCounted(block) ==
    SubAll(<<DocRazorComment, DocCsComment, CsLinePattern>>,
           join(<<"\n">>, SelectSeq(splitlines(block), IsCodeLine)))

\* C9: brace_balance reports the number of "{" and of "}" that lie on the
\* included lines and outside the comments @* ... *@, /* ... */ and // ...;
\* text of an included line outside those comments is never removed before
\* the count.
C9_CountsOutsideComments ==
    bal # NoBalance =>
        /\ bal.opens = count(DocCounted(expected), "{")
        /\ bal.closes = count(DocCounted(expected), "}")
        /\ bal.ok <=> (bal.opens = bal.closes)

(***************************************************************************)
(* SpecNoise: _strip_leading_noise (lines 160-201) applied to a text and   *)
(* then to its own result.  A text is at most MaxNoise parts.              *)
(***************************************************************************)
MaxNoise == 3

NoiseParts ==
    { <<"\n">>,
      <<" ">>,
      <<BOM>>,
      <<"a">>,
      <<"<", "!", "-", "-", "c", "-", "-", ">">>,
      <<"@", "*", "c", "*", "@">>,
      <<"<", "!", "-", "-">> }

InitNoise ==
    /\ pc = "strip"
    /\ expected \in {Concat(b) : b \in SeqsUpTo(NoiseParts, MaxNoise)}
    /\ ret = <<>>
    /\ log = <<>>
    /\ AUTO_FIX_BRACES = FALSE /\ sec = None /\ bal = NoBalance /\ err = NoMsg
    /\ out = <<>> /\ exit_code = None
    /\ files = <<>> /\ monolith = <<>> /\ s_start = None /\ abs_end = None
    /\ segment = <<>> /\ match = NoMatch /\ got_raw = <<>> /\ hay = <<>>
    /\ snippet = <<>> /\ start = None

NoiseFrame ==
    UNCHANGED <<AUTO_FIX_BRACES, files, monolith, sec, s_start, abs_end,
                segment, match, expected, got_raw, hay, snippet, start, bal,
                err, out, exit_code>>

\* lines 140-141: the function applied to a text
StripNoise ==
    /\ pc = "strip"
    /\ ret' = _strip_leading_noise(expected)
    /\ pc' = "stripped"
    /\ UNCHANGED log
    /\ NoiseFrame

\* the function applied to what it returned
StripAgain ==
    /\ pc = "stripped"
    /\ log' = Append(log, ret)
    /\ ret' = _strip_leading_noise(ret)
    /\ pc' = "restripped"
    /\ NoiseFrame

NextNoise == StripNoise \/ StripAgain

SpecNoise == InitNoise /\ [][NextNoise]_vars

\* C5: _strip_leading_noise is idempotent: applied to its own result it
\* returns that result unchanged, for every text.
C5_StripIsIdempotent == pc = "restripped" => ret = log[1]

(***************************************************************************)
(* SpecFind: find_ws_insensitive (lines 32-38) on a haystack of at most    *)
(* MaxHay parts, from an offset of at most MaxStart, and the slice the     *)
(* extractors take with the offsets it returns.                            *)
(***************************************************************************)
MaxHay == 4

MaxStart == 1

HayParts == { <<"a">>, <<"b">>, <<" ">>, <<"\n">>, <<"\r", "\n">> }

Snippets == { <<"a">>, <<"a", " ", "b">>, <<"b", "\n", "a">> }

InitFind ==
    /\ pc = "find"
    /\ hay \in {Concat(b) : b \in SeqsUpTo(HayParts, MaxHay)}
    /\ snippet \in Snippets
    /\ start \in 0..MaxStart
    /\ ret = NoMatch
    /\ expected = <<>>
    /\ AUTO_FIX_BRACES = FALSE /\ sec = None /\ bal = NoBalance /\ err = NoMsg
    /\ out = <<>> /\ exit_code = None /\ log = <<>>
    /\ files = <<>> /\ monolith = <<>> /\ s_start = None /\ abs_end = None
    /\ segment = <<>> /\ match = NoMatch /\ got_raw = <<>>

FindFrame ==
    UNCHANGED <<AUTO_FIX_BRACES, files, monolith, sec, s_start, abs_end,
                segment, match, got_raw, hay, snippet, start, bal, err, out,
                exit_code, log>>

\* lines 32-38
Find ==
    /\ pc = "find"
    /\ ret' = find_ws_insensitive(hay, snippet, start)
    /\ pc' = IF ret'[1] = None THEN "none" ELSE "found"
    /\ UNCHANGED expected
    /\ FindFrame

\* the caller's slice of the text it passed in (as in lines 215, 231)
TakeSlice ==
    /\ pc = "found"
    /\ expected' = Slice(hay, ret[1], ret[2])
    /\ pc' = "taken"
    /\ UNCHANGED ret
    /\ FindFrame

NextFind == Find \/ TakeSlice

SpecFind == InitFind /\ [][NextFind]_vars

\* text is what the snippet matches: the snippet's characters in order, each
\* run of white space of the snippet standing for any run of white space
MatchesSnippet(text, snip) ==
    /\ collapse_ws(text) = collapse_ws(snip)
    /\ text # <<>>

\* C6: when find_ws_insensitive returns (start, end), these are offsets into
\* the haystack as passed in, whatever its line breaks: start is not before
\* the offset searched from, haystack[start:end] is text the snippet
\* matches, and no match begins between the offset searched from and start.
C6_OffsetsIntoHaystack ==
    pc \in {"found", "taken"} =>
        /\ start <= ret[1] /\ ret[1] <= ret[2] /\ ret[2] <= Len(hay)
        /\ MatchesSnippet(Slice(hay, ret[1], ret[2]), snippet)
        /\ \A j \in start..(ret[1] - 1) : \A e \in j..Len(hay) :
               ~MatchesSnippet(Slice(hay, j, e), snippet)

(***************************************************************************)
(* SpecCompare: compare (lines 133-153) of an expected block with a split  *)
(* file of at most MaxParts parts, which may be missing.                   *)
(***************************************************************************)
MaxParts == 3

\* a file of the file system: whether it exists, and its text
File(text) == [exists |-> TRUE, text |-> text]

Missing == [exists |-> FALSE, text |-> <<>>]

REGION_START ==
    <<"<", "!", "-", "-", " ", "R", "E", "G", "I", "O", "N", ":", " ", "S",
      ".", "S", "t", "a", "r", "t", " ", "-", "-", ">">>

REGION_END ==
    <<"<", "!", "-", "-", " ", "R", "E", "G", "I", "O", "N", ":", " ", "S",
      ".", "E", "n", "d", " ", "-", "-", ">">>

CommentLine == <<"<", "!", "-", "-", " ", "c", " ", "-", "-", ">">>

SplitParts ==
    { REGION_START, REGION_END, CommentLine, <<"\n">>, <<" ">>, <<"A">>, <<"B">> }

ExpectedBlocks ==
    { <<"A", "\n", "B">>,
      <<"A">>,
      <<"B">>,
      CommentLine \o <<"\n", "A", " ", "B">> }

InitCompare ==
    /\ pc = "read"
    /\ sec \in {1}
    /\ expected \in ExpectedBlocks
    /\ files \in {[split |-> File(Concat(b))] : b \in SeqsUpTo(SplitParts, MaxParts)}
                 \cup {[split |-> Missing]}
    /\ got_raw = <<>>
    /\ ret = <<>>
    /\ err = NoMsg
    /\ out = <<>>
    /\ exit_code = None
    /\ AUTO_FIX_BRACES = FALSE /\ bal = NoBalance /\ log = <<>>
    /\ monolith = <<>> /\ s_start = None /\ abs_end = None
    /\ segment = <<>> /\ match = NoMatch /\ hay = <<>>
    /\ snippet = <<>> /\ start = None

CompareFrame ==
    UNCHANGED <<AUTO_FIX_BRACES, files, monolith, sec, s_start, abs_end,
                segment, match, expected, hay, snippet, start, bal, log>>

\* read (lines 19-22): the text of file f, or the failure of line 21
read(f) ==
    IF f.exists THEN Returned(f.text, <<>>) ELSE Failed(Msg("", "Missing file"))

\* line 134
ReadSplit ==
    /\ pc = "read"
    /\ IF read(files.split).failed
       THEN /\ pc' = "failed" /\ err' = read(files.split).msg /\ exit_code' = 1
            /\ UNCHANGED got_raw
       ELSE /\ pc' = "decide" /\ got_raw' = read(files.split).val
            /\ UNCHANGED <<err, exit_code>>
    /\ UNCHANGED <<ret, out>>
    /\ CompareFrame

\* lines 137-153
Decide ==
    /\ pc = "decide"
    /\ Conclude(compare(SectionName[sec], expected, got_raw))
    /\ UNCHANGED got_raw
    /\ CompareFrame

NextCompare == ReadSplit \/ Decide

SpecCompare == InitCompare /\ [][NextCompare]_vars

\* the content of a side as C7 describes it: without the BOM, the leading
\* blank lines and the leading comments, white space runs taken as one space
DocContent(s) == norm_ws(head_of(lstrip_bom(s)))

\* C7: compare reports a match whenever the candidate differs from the
\* expected block only by REGION markers in the candidate, by leading blank
\* lines and leading comments on either side and by the amount of white
\* space, and only then: no other content of either side is dropped before
\* the equality test.
C7_MatchIffSameContent ==
    pc \in {"returned", "failed"} /\ got_raw = files.split.text /\ files.split.exists =>
        (pc = "returned")
            <=> DocContent(expected) = DocContent(strip_region_wrappers(got_raw))

(***************************************************************************)
(* SpecProf: extract_professor (lines 259-284), statement by statement, on *)
(* a monolith whose text after the canvas is at most MaxTails parts.       *)
(***************************************************************************)
MaxTails == 3

RECURSIVE DivLines(_)
\* n lines "</div>"
DivLines(n) == IF n = 0 THEN <<>> ELSE DIV \o <<"\n">> \o DivLines(n - 1)

BrLine == BR \o BR \o <<"\n">>

\* a text of the shape of alternative A, of B and of C
TAIL_A_TEXT == DivLines(4) \o BrLine

TAIL_B_TEXT == DivLines(2) \o <<"}", "\n">> \o DivLines(3) \o BrLine

TAIL_C_TEXT == DivLines(3) \o BrLine \o <<"}", "\n">>

ProfParts ==
    { TAIL_A_TEXT, TAIL_B_TEXT, TAIL_C_TEXT, DIV \o <<"\n">>, <<"}", "\n">>,
      <<"<", "p", ">", "\n">> }

\* the section up to and including the canvas element
ProfOpening ==
    PROFESSOR_LITERAL \o <<"\n", "{", "\n">> \o PROFESSOR_ANCHOR
        \o <<">", "<", "/", "c", "a", "n", "v", "a", "s", ">", "\n">>

InitProf ==
    /\ pc = "guard"
    /\ AUTO_FIX_BRACES \in BOOLEAN
    /\ sec = 3
    /\ monolith \in {pre \o ProfOpening \o Concat(b) :
                       pre \in {<<>>, <<"<", "p", ">", "\n">>},
                       b \in SeqsUpTo(ProfParts, MaxTails)}
    /\ s_start = None /\ abs_end = None /\ segment = <<>> /\ match = NoMatch
    /\ expected = <<>>
    /\ ret = <<>>
    /\ err = NoMsg
    /\ out = <<>>
    /\ exit_code = None
    /\ files = <<>> /\ bal = NoBalance /\ log = <<>> /\ got_raw = <<>>
    /\ hay = <<>> /\ snippet = <<>> /\ start = None

ProfFrame ==
    UNCHANGED <<AUTO_FIX_BRACES, files, monolith, sec, got_raw, hay, snippet,
                start, bal, log>>

\* fail (lines 156-158) with message msg
Exit(msg) == pc' = "failed" /\ err' = msg /\ exit_code' = 1

\* lines 260-264
ProfGuard ==
    /\ pc = "guard"
    /\ s_start' = guard_start(monolith, PROFESSOR_LITERAL)
    /\ IF s_start' = None
       THEN Exit(Msg("Professor", "start not found"))
       ELSE pc' = "anchor" /\ UNCHANGED <<err, exit_code>>
    /\ UNCHANGED <<abs_end, segment, match, expected, ret, out>>
    /\ ProfFrame

\* lines 266-269
ProfAnchor ==
    /\ pc = "anchor"
    /\ IF find_ws_insensitive(From(monolith, s_start), PROFESSOR_ANCHOR, 0)[2] = None
       THEN /\ Exit(Msg("Professor", "end anchor not found"))
            /\ UNCHANGED abs_end
       ELSE /\ abs_end' = s_start
                   + find_ws_insensitive(From(monolith, s_start), PROFESSOR_ANCHOR, 0)[2]
            /\ pc' = "tail"
            /\ UNCHANGED <<err, exit_code>>
    /\ UNCHANGED <<s_start, segment, match, expected, ret, out>>
    /\ ProfFrame

\* lines 271-283
ProfTail ==
    /\ pc = "tail"
    /\ segment' = From(monolith, abs_end)
    /\ match' = professor_tail(segment')
    /\ IF match'[1] = None
       THEN /\ Exit(Msg("Professor", "closing structure not found"))
            /\ UNCHANGED expected
       ELSE /\ expected' = Slice(monolith, s_start, abs_end + match'[2])
            /\ pc' = "validate"
            /\ UNCHANGED <<err, exit_code>>
    /\ UNCHANGED <<s_start, abs_end, ret, out>>
    /\ ProfFrame

\* line 284
ProfValidate ==
    /\ pc = "validate"
    /\ Conclude(validate_and_maybe_fix("Professor", expected, PROFESSOR_LITERAL,
                                       AUTO_FIX_BRACES))
    /\ UNCHANGED <<s_start, abs_end, segment, match, expected>>
    /\ ProfFrame

NextProf == ProfGuard \/ ProfAnchor \/ ProfTail \/ ProfValidate

SpecProf == InitProf /\ [][NextProf]_vars

\* the closing search of lines 271-283 has run
TailSearched ==
    \/ pc \in {"validate", "returned"}
    \/ pc = "failed" /\ err.what # "end anchor not found" /\ err.what # "start not found"

\* C10: among the alternatives A, B, C the first, in that order, that matches
\* anywhere after the canvas is the one used, even when a later alternative
\* matches at an earlier offset; the block is the monolith from the guard
\* through the end of that match; extraction fails with "closing structure
\* not found" exactly when none of the three matches after the canvas.
C10_TailByPriority ==
    TailSearched =>
        /\ segment = From(monolith, abs_end)
        /\ match = IF re_search(tail_a, segment) # NoMatch
                   THEN re_search(tail_a, segment)
                   ELSE IF re_search(tail_b, segment) # NoMatch
                   THEN re_search(tail_b, segment)
                   ELSE re_search(tail_c, segment)
        /\ match # NoMatch =>
               expected = SubSeq(monolith, s_start + 1, abs_end + match[2])
        /\ (pc = "failed" /\ err = Msg("Professor", "closing structure not found"))
               <=> match = NoMatch

\* alternative A has been chosen although C matches earlier in the segment
C10_Witness ==
    /\ pc = "validate"
    /\ match = re_search(tail_a, segment) /\ match # NoMatch
    /\ re_search(tail_c, segment) # NoMatch
    /\ re_search(tail_c, segment)[1] < match[1]

(***************************************************************************)
(* Spec: main (lines 307-314).  The monolith holds the four sections one   *)
(* after the other; at most MaxDeviations of the sections and files depart *)
(* from a monolith and split files that are in sync.                       *)
(***************************************************************************)
MaxDeviations == 2

\* lines 216, 242, 266, 293
SectionAnchor ==
    <<STUDENT_ANCHOR, COMPANY_ANCHOR, PROFESSOR_ANCHOR, RESEARCH_ANCHOR>>

Sections == 1..Len(SectionName)

\* the guard and its brace (and, for Student, the inner block its closing
\* structure of two braces ends)
Opening(k) ==
    SectionLiteral[k] \o <<"\n", "{", "\n">>
        \o (IF k = 1 THEN <<"{", "\n">> ELSE <<>>)

\* the element that holds the anchor
AnchorLine(k) ==
    CASE k = 1 -> STUDENT_ANCHOR \o <<"\n">>
      [] k = 3 -> PROFESSOR_ANCHOR \o <<">", "\n">>
      [] OTHER -> <<"<", "i", " ">> \o SectionAnchor[k] \o <<">", "\n">>

\* the closing structure the extractor of section k looks for
Closing(k) ==
    CASE k = 1 -> DivLines(4) \o <<"}", "\n", "}", "\n">>
      [] k = 3 -> TAIL_C_TEXT
      [] OTHER -> DivLines(4) \o <<"}", "\n">>

SectionVariants ==
    {"absent", "no_anchor", "no_closing", "unbalanced", "trailing_closer"}

FileVariants == {"wrapped", "different", "missing"}

\* the text of section k in the monolith
SectionText(k, v) ==
    CASE v = "absent"          -> <<>>
      [] v = "no_anchor"       -> Opening(k) \o Closing(k)
      [] v = "no_closing"      -> Opening(k) \o AnchorLine(k)
      [] v = "unbalanced"      -> Opening(k) \o <<"{", "\n">> \o AnchorLine(k) \o Closing(k)
      [] v = "trailing_closer" -> Opening(k) \o AnchorLine(k) \o Closing(k) \o <<"}", "\n">>
      [] OTHER                 -> Opening(k) \o AnchorLine(k) \o Closing(k)

\* the split file of section k
SplitFile(k, v) ==
    CASE v = "missing"   -> Missing
      [] v = "different" -> File(SectionText(k, "ok") \o <<"<", "p", ">", "\n">>)
      [] v = "wrapped"   -> File(<<BOM>> \o REGION_START \o <<"\n">> \o CommentLine
                                \o <<"\n", "\n">> \o SectionText(k, "ok")
                                \o REGION_END \o <<"\n">>)
      [] OTHER           -> File(SectionText(k, "ok"))

Deviations ==
    {<<"MONOLITH", 0, "missing">>}
        \cup {<<"section", k, v>> : k \in Sections, v \in SectionVariants}
        \cup {<<"file", k, v>> : k \in Sections, v \in FileVariants}

RECURSIVE SetsUpTo(_, _)
\* the subsets of S of at most n elements
SetsUpTo(S, n) ==
    IF n = 0 THEN {{}}
    ELSE SetsUpTo(S, n - 1) \cup {p \cup {d} : p \in SetsUpTo(S, n - 1), d \in S}

\* the variant a set of deviations gives to section or file k
VariantOf(devs, what, k) ==
    IF \E d \in devs : d[1] = what /\ d[2] = k
    THEN (CHOOSE d \in devs : d[1] = what /\ d[2] = k)[3]
    ELSE "ok"

\* lines 9-13: the split file of each section
SectionPath == <<"STUDENT", "COMPANY", "PROF", "RGROUP">>

\* the file system a set of deviations describes
FileSystem(devs) ==
    [MONOLITH |-> IF VariantOf(devs, "MONOLITH", 0) = "missing" THEN Missing
                  ELSE File(<<"<", "m", "a", "i", "n", ">", "\n">>
                            \o SectionText(1, VariantOf(devs, "section", 1))
                            \o SectionText(2, VariantOf(devs, "section", 2))
                            \o SectionText(3, VariantOf(devs, "section", 3))
                            \o SectionText(4, VariantOf(devs, "section", 4))),
     STUDENT  |-> SplitFile(1, VariantOf(devs, "file", 1)),
     COMPANY  |-> SplitFile(2, VariantOf(devs, "file", 2)),
     PROF     |-> SplitFile(3, VariantOf(devs, "file", 3)),
     RGROUP   |-> SplitFile(4, VariantOf(devs, "file", 4))]

Init ==
    /\ pc = "read"
    /\ AUTO_FIX_BRACES \in BOOLEAN
    /\ files \in {FileSystem(devs) : devs \in SetsUpTo(Deviations, MaxDeviations)}
    /\ monolith = <<>>
    /\ sec = 1
    /\ expected = <<>>
    /\ got_raw = <<>>
    /\ err = NoMsg
    /\ out = <<>>
    /\ exit_code = None
    /\ log = <<>>
    /\ s_start = None /\ abs_end = None /\ segment = <<>> /\ match = NoMatch
    /\ hay = <<>> /\ snippet = <<>> /\ start = None /\ bal = NoBalance
    /\ ret = <<>>

\* the stages leave the configuration alone
MainFrame ==
    UNCHANGED <<AUTO_FIX_BRACES, files, s_start, abs_end, segment, match, hay,
                snippet, start>>

\* the record of a stage in the history
Ran(stage, name, ok) == [stage |-> stage, section |-> name, ok |-> ok]

\* the section processed after section k when the order of lines 309-312 is
\* not kept
skip_section(k) == k + 2

\* main, lines 309-312: the section processed after section k
next_section(k) == k + 1

\* line 313
ALL_MATCH == Msg("", "All sections match.")

\* the outcome r of a stage of section name: fail ends the run (lines
\* 156-158), otherwise the run goes on at control point next
Stage(stage, name, r, next) ==
    /\ log' = Append(log, Ran(stage, name, ~r.failed))
    /\ IF r.failed
       THEN Exit(r.msg) /\ UNCHANGED out
       ELSE pc' = next /\ out' = out \o r.info /\ UNCHANGED <<err, exit_code>>

ReadMonolithAs(r) == monolith' = r.val /\ Stage("read", "", r, "locate")

\* line 308
ReadMonolith ==
    /\ pc = "read"
    /\ ReadMonolithAs(read(files.MONOLITH))
    /\ UNCHANGED <<sec, expected, bal, ret, got_raw>>
    /\ MainFrame

LocateAs(c) == expected' = c.val /\ Stage("locate", SectionName[sec], c, "validate")

\* an extractor up to its last line (lines 207-231, 236-256, 260-283, 287-302)
Locate ==
    /\ pc = "locate"
    /\ LocateAs(carve(SectionName[sec], monolith, SectionLiteral[sec],
                      SectionAnchor[sec]))
    /\ UNCHANGED <<monolith, sec, bal, ret, got_raw>>
    /\ MainFrame

ValidateAs(e) ==
    Stage("validate", SectionName[sec],
          IF e = NoMsg THEN Returned(expected, <<>>) ELSE Failed(e), "balance")

\* line 102, called from the last line of the extractor
Validate ==
    /\ pc = "validate"
    /\ ValidateAs(ensure_starts_with_if_block(SectionName[sec], expected,
                                              SectionLiteral[sec]))
    /\ UNCHANGED <<monolith, sec, expected, bal, ret, got_raw>>
    /\ MainFrame

BalanceAs(r) == ret' = r.val /\ Stage("balance", SectionName[sec], r, "read_split")

\* lines 103-130
BalanceStage ==
    /\ pc = "balance"
    /\ bal' = brace_balance(expected)
    /\ BalanceAs(balance_or_fix(SectionName[sec], expected, AUTO_FIX_BRACES))
    /\ UNCHANGED <<monolith, sec, expected, got_raw>>
    /\ MainFrame

ReadSplitAs(r) ==
    got_raw' = r.val /\ Stage("read_split", SectionName[sec], r, "compare")

\* line 134
ReadSplitFile ==
    /\ pc = "read_split"
    /\ ReadSplitAs(read(files[SectionPath[sec]]))
    /\ UNCHANGED <<monolith, sec, expected, bal, ret>>
    /\ MainFrame

CompareAs(r) ==
    /\ Stage("compare", SectionName[sec], r,
             IF next_section(sec) > Len(SectionName) THEN "finish" ELSE "locate")
    /\ sec' = IF r.failed THEN sec ELSE next_section(sec)

\* lines 137-153, and the step of main to the next section
Compare ==
    /\ pc = "compare"
    /\ CompareAs(compare(SectionName[sec], ret, got_raw))
    /\ UNCHANGED <<monolith, expected, bal, ret, got_raw>>
    /\ MainFrame

\* lines 313-314
Finish ==
    /\ pc = "finish"
    /\ pc' = "done"
    /\ out' = Append(out, ALL_MATCH)
    /\ exit_code' = 0
    /\ UNCHANGED <<monolith, sec, expected, bal, ret, got_raw, err, log>>
    /\ MainFrame

Next ==
    \/ ReadMonolith
    \/ Locate
    \/ Validate
    \/ BalanceStage
    \/ ReadSplitFile
    \/ Compare
    \/ Finish

Spec == Init /\ [][Next]_vars

(***************************************************************************)
(* Properties of main, checked under Spec                                  *)
(***************************************************************************)
\* the stages of one section, in the order C1 gives them
StagesOf(name) ==
    <<Ran("locate", name, TRUE), Ran("validate", name, TRUE),
      Ran("balance", name, TRUE), Ran("read_split", name, TRUE),
      Ran("compare", name, TRUE)>>

\* the history of a run in which no stage fails
FullRun ==
    <<Ran("read", "", TRUE)>> \o StagesOf("Student") \o StagesOf("Company")
        \o StagesOf("Professor") \o StagesOf("ResearchGroup")

IsMatchReport(m) == m.what = "OK"

\* C1: the stages run in the fixed order: the monolith is read, then for
\* Student, Company, Professor and ResearchGroup in that order the section
\* is located, validated, balanced and compared.  A failed stage is the last
\* stage of the run, which then ends with exit code 1 and without the
\* success message; the success message and exit code 0 are produced only
\* after all four sections have reported a match.
C1_FixedOrderFailFast ==
    /\ Len(log) <= Len(FullRun)
    /\ \A i \in 1..Len(log) :
           /\ log[i].stage = FullRun[i].stage
           /\ log[i].section = FullRun[i].section
           /\ i < Len(log) => log[i].ok
    /\ pc = "failed" <=> (log # <<>> /\ ~log[Len(log)].ok)
    /\ pc = "failed" <=> exit_code = 1
    /\ pc = "failed" <=> err # NoMsg
    /\ pc = "done" <=> exit_code = 0
    /\ pc = "done" <=> (out # <<>> /\ out[Len(out)] = ALL_MATCH)
    /\ \A i \in 1..Len(out) : out[i] = ALL_MATCH => i = Len(out)
    /\ pc = "done" =>
           /\ log = FullRun
           /\ SelectSeq(out, IsMatchReport)
                  = <<Msg("Student", "OK"), Msg("Company", "OK"),
                      Msg("Professor", "OK"), Msg("ResearchGroup", "OK")>>

\* the run has ended in the balance stage of Professor, after Student and
\* Company have reported a match and before any stage of ResearchGroup
C1_Witness ==
    /\ pc = "failed" /\ exit_code = 1
    /\ log[Len(log)] = Ran("balance", "Professor", FALSE)
    /\ SelectSeq(out, IsMatchReport) = <<Msg("Student", "OK"), Msg("Company", "OK")>>

=============================================================================
